---- MODULE Spec2Model ----
(***************************************************************************)
(* The batch document-ingestion pipeline of j-chacko/Unstructured:         *)
(* main.py's runner (unsupported-file scan, then one dispatcher per entry  *)
(* of processing_tasks) and the per-format dispatchers process_*.py.       *)
(*                                                                         *)
(* A file name is a sequence of one-character strings, so that             *)
(* str.startswith, str.endswith, str.lower and os.path.splitext are        *)
(* computed on the characters.  A path is a sequence of such names.        *)
(***************************************************************************)
EXTENDS Integers, Sequences, FiniteSets, TLC

VARIABLES
    input_dir_exists, \* whether the directory LOCAL_FILE_INPUT_DIR is there
    tree,             \* the files under LOCAL_FILE_INPUT_DIR (records [dir, name])
    outdirs,          \* the directories that exist under LOCAL_FILE_OUTPUT_DIR
    outfiles,         \* the output tree: artifact path -> content
    faillog,          \* LOG_DIR/failed_*_files.log: log name -> sequence of lines
    unsupported_log,  \* LOG_DIR/unsupported_files.log: its lines (<<>>: no file)
    pc,               \* where main() is: "idle", "dispatch", "done", "crashed"
    run,              \* how many times main() has been started
    task,             \* index into processing_tasks of the for loop of main()
    todo,             \* the matching files the running dispatcher has yet to visit
    invoked,          \* this run: the dispatchers main() has called, in order
    caught,           \* this run: the dispatchers whose exception main() caught
    trail,            \* this run: one record per loop iteration of a dispatcher
    visits_left,      \* how many more files the runs of this behaviour may meet
    before,           \* the output tree and the failure logs when this run began
    oracle,           \* repeatable environment: file -> what its visit met
    sniffed           \* detect_file_encoding on its own: a candidate and the
                      \* answers of the three sniffers (<<"?">>: not yet called)

vars == <<input_dir_exists, tree, outdirs, outfiles, faillog, unsupported_log, pc, run, task,
          todo, invoked, caught, trail, visits_left, before, oracle, sniffed>>

----------------------------------------------------------------------------
(* Bounds of the exploration.                                              *)

\* the largest number of files in the input tree
MaxFiles == 2
\* the largest number of runs of main() in one behaviour
MaxRuns == 2
\* the largest number of files that the runs of one behaviour meet in all (a
\* run over an empty tree counts as one): a run is followed only if its tree
\* fits into what is left
MaxVisits == 2

----------------------------------------------------------------------------
(* Strings.                                                                *)

UPPER == <<"A","B","C","D","E","F","G","H","I","J","K","L","M",
           "N","O","P","Q","R","S","T","U","V","W","X","Y","Z">>
LOWER == <<"a","b","c","d","e","f","g","h","i","j","k","l","m",
           "n","o","p","q","r","s","t","u","v","w","x","y","z">>

\* str.lower() on one character
lower_char(ch) ==
    IF \E i \in 1..Len(UPPER) : UPPER[i] = ch
    THEN LOWER[CHOOSE i \in 1..Len(UPPER) : UPPER[i] = ch]
    ELSE ch

\* str.lower()
lower(s) == [i \in 1..Len(s) |-> lower_char(s[i])]

\* str.startswith(prefix)
startswith(s, prefix) ==
    /\ Len(s) >= Len(prefix)
    /\ SubSeq(s, 1, Len(prefix)) = prefix

\* str.endswith(suffix)
endswith(s, suffix) ==
    /\ Len(s) >= Len(suffix)
    /\ SubSeq(s, Len(s) - Len(suffix) + 1, Len(s)) = suffix

\* str.endswith(tuple of suffixes)
endswith_any(s, suffixes) == \E x \in suffixes : endswith(s, x)

\* s.rfind("."), 1-based, 0 when there is no dot
rfind_dot(s) ==
    IF \E i \in 1..Len(s) : s[i] = "."
    THEN CHOOSE i \in 1..Len(s) :
            /\ s[i] = "."
            /\ \A j \in (i+1)..Len(s) : s[j] # "."
    ELSE 0

\* os.path.splitext(name)[1]: from the last dot on, unless only dots precede it
splitext_ext(name) ==
    LET d == rfind_dot(name) IN
    IF d > 0 /\ (\E j \in 1..(d-1) : name[j] # ".")
    THEN SubSeq(name, d, Len(name))
    ELSE <<>>

----------------------------------------------------------------------------
(* Paths.                                                                  *)

DOT == <<".">>
LOCAL_FILE_INPUT_DIR == << <<"i","n">> >>
LOCAL_FILE_OUTPUT_DIR == << <<"o","u","t">> >>

\* os.path.join(a, b) of a path and a relative path
join(a, b) == a \o b

\* os.path.relpath(p, start) for p at or below start: "." for start itself
relpath(p, start) ==
    IF p = start THEN <<DOT>> ELSE SubSeq(p, Len(start) + 1, Len(p))

\* the file system's reading of a path: "." components name no directory
RECURSIVE normpath(_)
normpath(p) ==
    IF p = <<>> THEN <<>>
    ELSE IF Head(p) = DOT THEN normpath(Tail(p))
    ELSE <<Head(p)>> \o normpath(Tail(p))

----------------------------------------------------------------------------
(* File extensions, as the sources spell them.                              *)

X_txt == <<".","t","x","t">>
X_csv == <<".","c","s","v">>
X_tsv == <<".","t","s","v">>
X_xlsx == <<".","x","l","s","x">>
X_xml == <<".","x","m","l">>
X_doc == <<".","d","o","c">>
X_docx == <<".","d","o","c","x">>
X_ppt == <<".","p","p","t">>
X_pptx == <<".","p","p","t","x">>
X_rst == <<".","r","s","t">>
X_rtf == <<".","r","t","f">>
X_eml == <<".","e","m","l">>
X_msg == <<".","m","s","g">>
X_epub == <<".","e","p","u","b">>
X_png == <<".","p","n","g">>
X_jpg == <<".","j","p","g">>
X_jpeg == <<".","j","p","e","g">>
X_tiff == <<".","t","i","f","f">>
X_bmp == <<".","b","m","p">>
X_heic == <<".","h","e","i","c">>
X_md == <<".","m","d">>
X_odt == <<".","o","d","t">>
X_org == <<".","o","r","g">>
X_html == <<".","h","t","m","l">>
X_pdf == <<".","p","d","f">>

\* main(): the set supported_extensions
supported_extensions ==
    {X_txt, X_csv, X_tsv, X_xlsx, X_xml, X_doc,
     X_docx, X_ppt, X_pptx, X_rst, X_rtf, X_eml,
     X_msg, X_epub, X_png, X_jpg, X_jpeg, X_tiff,
     X_bmp, X_heic, X_md, X_odt, X_org, X_html,
     X_pdf}

\* main(): the list processing_tasks, by the name of each processing function
processing_tasks ==
    <<"process_csv_files", "process_tsv_files", "process_xlsx_files",
      "process_xml_files", "process_doc_and_docx_files", "process_ppt_and_pptx_files",
      "process_rst_files", "process_rtf_files", "process_text_files",
      "process_email_files", "process_epub_files", "process_image_files",
      "process_md_files", "process_msg_files", "process_odt_files",
      "process_org_files", "process_html_files", "process_pdf_files">>

\* the entries of processing_tasks whose source file is not among the sources
missing_tasks ==
    {"process_doc_and_docx_files", "process_rst_files", "process_rtf_files",
     "process_email_files", "process_epub_files", "process_md_files",
     "process_msg_files", "process_html_files", "process_pdf_files"}

----------------------------------------------------------------------------
(* The input trees explored.  WalkOrder lists the files in the order       *)
(* os.walk meets them (top-down: a directory's files before those of its   *)
(* subdirectories); a tree is a set of at most MaxFiles of them.           *)

F(dir, name) == [dir |-> dir, name |-> name]

WalkOrder ==
    << F(<<>>, <<"A",".","C","S","V">>),
       F(<<>>, <<".","c","s","v">>),
       F(<<>>, <<"r",".","t","s","v">>),
       F(<<>>, <<"x",".","x","l","s","x">>),
       F(<<>>, <<"m",".","x","m","l">>),
       F(<<>>, <<"p",".","p","p","t">>),
       F(<<>>, <<"Q",".","P","P","T","X">>),
       F(<<>>, <<"i",".","p","n","g">>),
       F(<<>>, <<"d",".","o","d","t">>),
       F(<<>>, <<"o",".","o","r","g">>),
       F(<<>>, <<"n",".","x","y","z">>),
       F(<<>>, <<"r",".","t","x","t">>),
       F(<< <<"s">> >>, <<"b",".","c","s","v">>),
       F(<< <<"s">> >>, <<"c",".","c","s","v">>),
       F(<< <<".","d">> >>, <<"e",".","t","x","t">>) >>

Files == {WalkOrder[i] : i \in 1..Len(WalkOrder)}

Trees == {T \in SUBSET Files : Cardinality(T) <= MaxFiles}

\* os.path.join(root, file) of the walk
input_path(f) == join(join(LOCAL_FILE_INPUT_DIR, f.dir), <<f.name>>)

\* a name that starts with "."
is_hidden(name) == startswith(name, DOT)

\* a file that is hidden or lies under a hidden directory
hidden_file(f) ==
    \/ is_hidden(f.name)
    \/ \E i \in 1..Len(f.dir) : is_hidden(f.dir[i])

----------------------------------------------------------------------------
(* The extension filter of each dispatcher: the if-test of its loop.       *)

process_csv_selects(file) == endswith(file, X_csv)
process_tsv_selects(file) == endswith(file, X_tsv)
process_xlsx_selects(file) == endswith(lower(file), X_xlsx)
process_xml_selects(file) == endswith(lower(file), X_xml)
process_ppt_and_pptx_selects(file) == endswith_any(lower(file), {X_ppt, X_pptx})
process_text_selects(file) == endswith(lower(file), X_txt)
process_image_selects(file) ==
    endswith_any(lower(file), {X_png, X_jpg, X_jpeg, X_tiff, X_bmp, X_heic})
process_odt_selects(file) == endswith(file, X_odt)
process_org_selects(file) == endswith(file, X_org)

\* the extensions of a dispatcher whose source is missing
missing_extensions(t) ==
    CASE t = "process_doc_and_docx_files" -> {X_doc, X_docx}
      [] t = "process_rst_files" -> {X_rst}
      [] t = "process_rtf_files" -> {X_rtf}
      [] t = "process_email_files" -> {X_eml}
      [] t = "process_epub_files" -> {X_epub}
      [] t = "process_md_files" -> {X_md}
      [] t = "process_msg_files" -> {X_msg}
      [] t = "process_html_files" -> {X_html}
      [] t = "process_pdf_files" -> {X_pdf}
      [] OTHER -> {}

\* the filter of a dispatcher whose source is missing: the loop contract
missing_selects(t, f) ==
    /\ ~hidden_file(f)
    /\ endswith_any(lower(f.name), missing_extensions(t))

\* whether dispatcher t selects file f of its walk
selects(t, f) ==
    CASE t = "process_csv_files" -> process_csv_selects(f.name)
      [] t = "process_tsv_files" -> process_tsv_selects(f.name)
      [] t = "process_xlsx_files" -> process_xlsx_selects(f.name)
      [] t = "process_xml_files" -> process_xml_selects(f.name)
      [] t = "process_ppt_and_pptx_files" -> process_ppt_and_pptx_selects(f.name)
      [] t = "process_text_files" -> process_text_selects(f.name)
      [] t = "process_image_files" -> process_image_selects(f.name)
      [] t = "process_odt_files" -> process_odt_selects(f.name)
      [] t = "process_org_files" -> process_org_selects(f.name)
      [] OTHER -> missing_selects(t, f)

\* for each dispatcher, by its index in processing_tasks, the files it selects
Selected ==
    [i \in 1..Len(processing_tasks) |->
        {f \in Files : selects(processing_tasks[i], f)}]

\* the files the dispatcher of index i visits in tree T, in order
matching(i, T) == SelectSeq(WalkOrder, LAMBDA f : f \in T /\ f \in Selected[i])

----------------------------------------------------------------------------
(* detect_file_encoding: what charset-normalizer proposes, and what each   *)
(* category's sniffer makes of it.  <<>> is None.                          *)

ENC_ascii == <<"a","s","c","i","i">>
ENC_utf_8 == <<"u","t","f","_","8">>
ENC_fallback == <<"u","t","f","-","8">>

\* the default min_confidence=0.5, in hundredths
min_confidence_x100 == 50

\* what from_path(...).best() can give: nothing, an exception, or a best guess
Guesses ==
    {[kind |-> "none", encoding |-> <<>>, percent_chaos |-> 0],
     [kind |-> "raise", encoding |-> <<>>, percent_chaos |-> 0]}
    \cup {[kind |-> "guess", encoding |-> e, percent_chaos |-> c] :
            e \in {ENC_ascii, ENC_utf_8}, c \in {0, 40, 50, 55}}

\* a sniffer that also accepts a candidate at the threshold
detect_file_encoding_at_most(g) ==
    IF /\ g.kind = "guess"
       /\ g.encoding # <<>>
       /\ g.encoding # ENC_ascii
       /\ g.percent_chaos <= 100 - min_confidence_x100
    THEN g.encoding
    ELSE <<>>

detect_file_encoding_csv(g) ==
    IF /\ g.kind = "guess"
       /\ g.encoding # <<>>
       /\ g.encoding # ENC_ascii
       /\ g.percent_chaos < 100 - min_confidence_x100
    THEN g.encoding
    ELSE <<>>

detect_file_encoding_text(g) ==
    IF /\ g.kind = "guess"
       /\ g.encoding # <<>>
       /\ g.encoding # ENC_ascii
       /\ g.percent_chaos < 100 - min_confidence_x100
    THEN g.encoding
    ELSE <<>>

\* a tsv sniffer that rejects "ascii" as the other two do
detect_file_encoding_tsv_strict(g) ==
    IF /\ g.kind = "guess"
       /\ g.encoding # <<>>
       /\ lower(g.encoding) # ENC_ascii
       /\ g.percent_chaos < 100 - min_confidence_x100
    THEN g.encoding
    ELSE <<>>

detect_file_encoding_tsv(g) ==
    IF g.kind = "guess" /\ g.encoding # <<>>
    THEN IF lower(g.encoding) = ENC_ascii THEN ENC_fallback
         ELSE IF g.percent_chaos < 100 - min_confidence_x100 THEN g.encoding
         ELSE <<>>
    ELSE <<>>

\* the candidates detect_file_encoding is tried on by itself
ENC_cp1252 == <<"c","p","1","2","5","2">>

ChaosValues == {0, 40, 49, 50, 51, 55, 100}

Candidates ==
    {[kind |-> "none", encoding |-> <<>>, percent_chaos |-> 0],
     [kind |-> "raise", encoding |-> <<>>, percent_chaos |-> 0]}
    \cup {[kind |-> "guess", encoding |-> e, percent_chaos |-> c] :
            e \in {ENC_ascii, ENC_utf_8, ENC_cp1252}, c \in ChaosValues}

\* the dispatchers that resolve an encoding before extraction
sniffs(t) ==
    t \in {"process_csv_files", "process_tsv_files", "process_text_files"}

detect_file_encoding(t, g) ==
    CASE t = "process_csv_files" -> detect_file_encoding_csv(g)
      [] t = "process_tsv_files" -> detect_file_encoding_tsv(g)
      [] t = "process_text_files" -> detect_file_encoding_text(g)

\* the encodings dispatcher t can hand to its extraction (<<>>: it takes none)
Encodings(t) ==
    IF sniffs(t)
    THEN {detect_file_encoding(t, g) : g \in Guesses} \ {<<>>}
    ELSE {<<>>}

----------------------------------------------------------------------------
(* Elements and the three sinks.  An element's text is <<>> for None and   *)
(* <<s>> for the string s.                                                 *)

El(kind, text) == [kind |-> kind, text |-> text]

\* what an extraction capability can return
ExtractionResults ==
    { <<>>,
      << El("Title", <<"T">>), El("Table", <<>>) >> }

\* f"{element.text}"
format_text(text) == IF text = <<>> THEN "None" ELSE text[1]

\* element.text or ""
text_or_empty(text) == IF text = <<>> \/ text = <<"">> THEN "" ELSE text[1]

\* process_text.py: element.text or str(element)
text_or_str(text) ==
    IF text = <<>> \/ text = <<"">> THEN "str(element)" ELSE text[1]

\* a write_output that leaves out the elements without text
txt_content_of_texts(elements) ==
    LET texts == SelectSeq(elements, LAMBDA e : e.text # <<>>)
    IN [i \in 1..Len(texts) |-> <<format_text(texts[i].text), "\n\n">>]

\* write_output: each element's text and a blank line
txt_content(elements) ==
    [i \in 1..Len(elements) |-> <<format_text(elements[i].text), "\n\n">>]

\* write_json_output: {"elements": [element.to_dict(), ...]}
json_content(elements) ==
    [elements |-> [i \in 1..Len(elements) |->
                      [type |-> elements[i].kind, text |-> elements[i].text]]]

\* elements_to_annotated_text
elements_to_annotated_text(t, elements) ==
    [i \in 1..Len(elements) |->
        <<"[", elements[i].kind, "] ",
          IF t = "process_text_files"
          THEN text_or_str(elements[i].text)
          ELSE text_or_empty(elements[i].text),
          "\n">>]

Sinks == {"txt", "json", "annotated"}

SUFFIX_txt == <<".","t","x","t">>
SUFFIX_json == <<".","j","s","o","n">>
SUFFIX_annotated == <<"_","a","n","n","o","t","a","t","e","d",".","t","x","t">>

sink_suffix(k) ==
    CASE k = "txt" -> SUFFIX_txt
      [] k = "json" -> SUFFIX_json
      [] k = "annotated" -> SUFFIX_annotated

sink_content(t, k, elements) ==
    CASE k = "txt" -> txt_content(elements)
      [] k = "json" -> json_content(elements)
      [] k = "annotated" -> elements_to_annotated_text(t, elements)

\* an output_dir_full that leaves relative_path out
output_dir_flat(f) == LOCAL_FILE_OUTPUT_DIR

\* output_dir_full of the file's directory
output_dir_full(f) ==
    join(LOCAL_FILE_OUTPUT_DIR,
         relpath(join(LOCAL_FILE_INPUT_DIR, f.dir), LOCAL_FILE_INPUT_DIR))

\* artifact names made from the file name without its extension
artifact_path_of_stem(f, k) ==
    LET ext == splitext_ext(f.name)
        stem == SubSeq(f.name, 1, Len(f.name) - Len(ext))
    IN join(output_dir_full(f), <<stem \o sink_suffix(k)>>)

\* output_txt_path, output_json_path, output_annotated_txt_path
artifact_path(f, k) == join(output_dir_full(f), <<f.name \o sink_suffix(k)>>)

\* how the write of one sink can end: it writes the whole content; open()
\* raises (or the content cannot be built) and the file is as it was; a write
\* raises after open(path, "w") has truncated the file
Faults == {"ok", "open", "write"}

NoFaults == [k \in Sinks |-> "ok"]

\* a write_* function that opens its file for append
write_sink_append(files, p, content, fault) ==
    CASE fault = "ok" ->
            (p :> (IF p \in DOMAIN files THEN <<files[p], content>> ELSE content))
                @@ files
      [] fault = "open" -> files
      [] fault = "write" -> (p :> <<>>) @@ files

\* one write_* function: open(output_path, "w") and the writes, inside its own
\* try/except Exception, so that it always returns
write_sink(files, p, content, fault) ==
    CASE fault = "ok" -> (p :> content) @@ files
      [] fault = "open" -> files
      [] fault = "write" -> (p :> <<>>) @@ files

\* the three writes if the write_* functions caught nothing: the first sink
\* that fails ends them
write_outputs_uncaught(files, t, f, elements, faults) ==
    LET a == write_sink(files, normpath(artifact_path(f, "txt")),
                        sink_content(t, "txt", elements), faults["txt"])
        b == write_sink(a, normpath(artifact_path(f, "json")),
                        sink_content(t, "json", elements), faults["json"])
    IN IF faults["txt"] # "ok" THEN a
       ELSE IF faults["json"] # "ok" THEN b
       ELSE write_sink(b, normpath(artifact_path(f, "annotated")),
                       sink_content(t, "annotated", elements), faults["annotated"])

\* write_output, write_json_output and write_annotated_output, called one
\* after the other on the elements of one extraction
write_outputs(files, t, f, elements, faults) ==
    LET a == write_sink(files, normpath(artifact_path(f, "txt")),
                        sink_content(t, "txt", elements), faults["txt"])
        b == write_sink(a, normpath(artifact_path(f, "json")),
                        sink_content(t, "json", elements), faults["json"])
    IN write_sink(b, normpath(artifact_path(f, "annotated")),
                  sink_content(t, "annotated", elements), faults["annotated"])

\* os.makedirs: the directory and every missing ancestor
makedirs(d) == {SubSeq(d, 1, n) : n \in 1..Len(d)}

----------------------------------------------------------------------------
(* The failure logs.                                                       *)

\* which file log_failed_file of dispatcher t appends to ("": it has none)
failed_log_path(t) ==
    CASE t = "process_csv_files" -> "failed_csv_files.log"
      [] t = "process_tsv_files" -> "failed_tsv_files.log"
      [] t = "process_xlsx_files" -> "failed_xlsx_files.log"
      [] t = "process_xml_files" -> "failed_xml_files.log"
      [] t = "process_ppt_and_pptx_files" -> "failed_ppt_files.log"
      [] t = "process_text_files" -> "failed_txt_files.log"
      [] t = "process_odt_files" -> "failed_odt_files.log"
      [] t \in {"process_org_files", "process_image_files"} -> ""
      [] OTHER -> "failed_<category>.log"

FailedLogs ==
    {failed_log_path(processing_tasks[i]) : i \in 1..Len(processing_tasks)} \ {""}

\* what the except handler of dispatcher t's loop does with the failure
on_error(t) ==
    CASE t \in {"process_org_files", "process_image_files"} -> "nothing"
      [] t = "process_odt_files" -> "log_path"
      [] OTHER -> "log_cause"

\* the line log_failed_file writes
failure_line(t, path, cause) ==
    IF on_error(t) = "log_path" THEN <<path>> ELSE <<path, cause>>

\* log_failed_file: open the log for append and write one line
log_failed_file(log, t, path, cause) ==
    [log EXCEPT ![failed_log_path(t)] = Append(@, failure_line(t, path, cause))]

\* the dispatchers that record an empty result as a failure
logs_empty_result(t) == t \in {"process_xlsx_files", "process_xml_files"}

----------------------------------------------------------------------------
(* log_unsupported_files                                                   *)

\* whether the scan collects file f: hidden directories are pruned from the
\* walk, hidden files are skipped, and the lowercase extension decides
is_unsupported(f) ==
    /\ \A i \in 1..Len(f.dir) : ~is_hidden(f.dir[i])
    /\ ~is_hidden(f.name)
    /\ lower(splitext_ext(f.name)) \notin supported_extensions

Unsupported == {f \in Files : is_unsupported(f)}

\* the list unsupported_files after the walk of tree T
unsupported_files(T) ==
    LET seen == SelectSeq(WalkOrder, LAMBDA f : f \in T /\ f \in Unsupported)
    IN [i \in 1..Len(seen) |-> input_path(seen[i])]

----------------------------------------------------------------------------
(* The state after set-up: the three directories exist, nothing has been   *)
(* written, main() has not been started.                                   *)

\* the environment has not met the file yet
Unmet == [result |-> "unmet"]

\* no sniffer is being tried by itself
NotSniffing == << >>

\* the answer of a sniffer that has not been called yet
NotCalled == <<"?">>

Sniffers == {"process_csv_files", "process_tsv_files", "process_text_files"}

Init ==
    /\ input_dir_exists = TRUE
    /\ tree \in Trees
    /\ outdirs = {LOCAL_FILE_OUTPUT_DIR}
    /\ outfiles = << >>
    /\ faillog = [n \in FailedLogs |-> <<>>]
    /\ unsupported_log = <<>>
    /\ pc = "idle"
    /\ run = 0
    /\ task = 1
    /\ todo = <<>>
    /\ invoked = <<>>
    /\ caught = {}
    /\ trail = <<>>
    /\ visits_left = MaxVisits
    /\ before = [out |-> << >>, dirs |-> {LOCAL_FILE_OUTPUT_DIR},
                 log |-> [n \in FailedLogs |-> <<>>], ended |-> "idle"]
    /\ oracle = [f \in Files |-> Unmet]
    /\ sniffed = NotSniffing

----------------------------------------------------------------------------
(* main()                                                                  *)

\* what a run over tree T takes of the exploration: one per file
work(T) == IF T = {} THEN 1 ELSE Cardinality(T)

\* main() up to the loop over processing_tasks: log_unsupported_files scans
\* the tree and, when the list is not empty, rewrites unsupported_files.log;
\* an error of open or write is caught nowhere and ends main()
log_unsupported_files ==
    /\ pc \in {"idle", "done", "crashed"}
    /\ run < MaxRuns
    /\ work(tree) <= visits_left
    /\ visits_left' = visits_left - work(tree)
    /\ run' = run + 1
    /\ task' = 1
    /\ todo' = <<>>
    /\ invoked' = <<>>
    /\ caught' = {}
    /\ trail' = <<>>
    /\ LET unsupported == unsupported_files(tree) IN
        IF unsupported = <<>>
        THEN pc' = "dispatch" /\ UNCHANGED unsupported_log
        ELSE \/ pc' = "dispatch" /\ unsupported_log' = unsupported
             \/ pc' = "crashed" /\ UNCHANGED unsupported_log
    /\ before' = [out |-> outfiles, dirs |-> outdirs, log |-> faillog,
                  ended |-> pc]
    /\ input_dir_exists' = TRUE
    /\ UNCHANGED <<tree, outdirs, outfiles, faillog, oracle, sniffed>>

\* the index of the first dispatcher from position i of processing_tasks on
\* that finds a matching file in the tree; Len(processing_tasks) + 1 if none
next_busy(i) ==
    LET busy == {j \in i..Len(processing_tasks) : tree \cap Selected[j] # {}}
    IN IF busy = {} THEN Len(processing_tasks) + 1
       ELSE CHOOSE j \in busy : \A k \in busy : j <= k

\* a for loop that the first dispatcher to find the input directory missing
\* ends for all the dispatchers after it
main_loop_until_missing(i) ==
    LET k == next_busy(i) IN
    IF ~input_dir_exists
    THEN /\ invoked' = Append(invoked, processing_tasks[i])
         /\ pc' = "done"
         /\ task' = i
         /\ todo' = <<>>
    ELSE IF k > Len(processing_tasks)
    THEN /\ invoked' = invoked \o SubSeq(processing_tasks, i, Len(processing_tasks))
         /\ pc' = "done"
         /\ task' = Len(processing_tasks)
         /\ todo' = <<>>
    ELSE /\ invoked' = invoked \o SubSeq(processing_tasks, i, k)
         /\ pc' = "walk"
         /\ task' = k
         /\ todo' = matching(k, tree)

\* the for loop of main() from position i on: it calls processing_tasks[i] and
\* the ones after it, in order.  A dispatcher that finds the input directory
\* missing, or no matching file in it, returns having changed nothing, so the
\* calls up to the first dispatcher that finds a matching file, which starts
\* its walk, are part of one step
main_loop(i) ==
    LET k == next_busy(i) IN
    IF ~input_dir_exists \/ k > Len(processing_tasks)
    THEN /\ invoked' = invoked \o SubSeq(processing_tasks, i, Len(processing_tasks))
         /\ pc' = "done"
         /\ task' = Len(processing_tasks)
         /\ todo' = <<>>
    ELSE /\ invoked' = invoked \o SubSeq(processing_tasks, i, k)
         /\ pc' = "walk"
         /\ task' = k
         /\ todo' = matching(k, tree)

\* the for loop of main() without its try/except: an exception that leaves a
\* dispatcher leaves main() as well
after_dispatcher_uncaught(raised) ==
    IF raised
    THEN /\ pc' = "crashed"
         /\ todo' = <<>>
         /\ UNCHANGED <<task, caught, invoked>>
    ELSE /\ UNCHANGED caught
         /\ main_loop(task + 1)

\* the for loop of main() after processing_tasks[task] has returned
\* (raised = FALSE) or raised: except Exception logs it and the loop goes on
after_dispatcher(raised) ==
    /\ caught' = IF raised THEN caught \cup {processing_tasks[task]} ELSE caught
    /\ main_loop(task + 1)

\* main() enters its loop over processing_tasks
InvokeDispatcher ==
    /\ pc = "dispatch"
    /\ main_loop(1)
    /\ UNCHANGED <<input_dir_exists, tree, outdirs, outfiles, faillog, unsupported_log, run,
                   caught, trail, visits_left, before, oracle, sniffed>>

----------------------------------------------------------------------------
(* One iteration of a dispatcher's loop, on the file Head(todo).           *)

\* a loop whose body lets no exception out: the walk always goes on
next_file_contained(escaped) ==
    IF Tail(todo) = <<>> THEN after_dispatcher(FALSE)
    ELSE /\ todo' = Tail(todo)
         /\ UNCHANGED <<pc, task, caught, invoked>>

\* a loop that gives a file whose extraction raised a second try
next_file_retrying(escaped) ==
    LET v == trail'[Len(trail')] IN
    IF escaped THEN after_dispatcher(TRUE)
    ELSE IF /\ v.result = "error"
            /\ \A i \in DOMAIN trail : trail[i].file # v.file
    THEN UNCHANGED <<todo, pc, task, caught, invoked>>
    ELSE IF Tail(todo) = <<>> THEN after_dispatcher(FALSE)
    ELSE /\ todo' = Tail(todo)
         /\ UNCHANGED <<pc, task, caught, invoked>>

\* the loop after this iteration: an exception that left the loop body ends
\* the dispatcher, else the walk goes on or the dispatcher returns
next_file(escaped) ==
    IF escaped THEN after_dispatcher(TRUE)
    ELSE IF Tail(todo) = <<>> THEN after_dispatcher(FALSE)
    ELSE /\ todo' = Tail(todo)
         /\ UNCHANGED <<pc, task, caught, invoked>>

\* a sub-dispatch that tests the file name as it is spelt
capability_case_sensitive(t, f) ==
    CASE t = "process_csv_files" -> "partition_csv"
      [] t = "process_tsv_files" -> "partition_tsv"
      [] t = "process_xlsx_files" -> "partition_xlsx"
      [] t = "process_xml_files" -> "partition_xml"
      [] t = "process_ppt_and_pptx_files" ->
            IF endswith(f.name, X_pptx) THEN "partition_pptx" ELSE "partition_ppt"
      [] t = "process_text_files" -> "partition_text"
      [] t = "process_image_files" -> "partition_image"
      [] t = "process_odt_files" -> "partition_odt"
      [] t = "process_org_files" -> "partition_org"
      [] OTHER -> "partition"

\* the extraction capability dispatcher t calls on file f: the partition_*
\* function of its module; process_ppt_and_pptx_files has two and takes
\* partition_pptx if file.lower().endswith(".pptx"), else partition_ppt
capability(t, f) ==
    CASE t = "process_csv_files" -> "partition_csv"
      [] t = "process_tsv_files" -> "partition_tsv"
      [] t = "process_xlsx_files" -> "partition_xlsx"
      [] t = "process_xml_files" -> "partition_xml"
      [] t = "process_ppt_and_pptx_files" ->
            IF endswith(lower(f.name), X_pptx) THEN "partition_pptx" ELSE "partition_ppt"
      [] t = "process_text_files" -> "partition_text"
      [] t = "process_image_files" -> "partition_image"
      [] t = "process_odt_files" -> "partition_odt"
      [] t = "process_org_files" -> "partition_org"
      [] OTHER -> "partition"

\* the record of one iteration
\* (capability: the extraction function that was called, "" if none was;
\* written: the sinks whose write did not fail; faults: how each write ended;
\* lines: the lines appended to the failure log; log_errors: the calls of
\* log_failed_file that raised)
Visit(f, result, extracted, encoding, elements, written, faults, lines, log_errors, escaped) ==
    [task |-> processing_tasks[task], file |-> f, path |-> input_path(f),
     result |-> result, extracted |-> extracted, encoding |-> encoding,
     capability |-> IF extracted THEN capability(processing_tasks[task], f) ELSE "",
     elements |-> elements, written |-> written, faults |-> faults,
     lines |-> lines, log_errors |-> log_errors, escaped |-> escaped]

\* whether the environment lets the visit of f by the running dispatcher
\* meet this: anything when it is free (oracle is empty), and what the first
\* visit of f met when it is repeatable
permits(f, result, encoding, elements, faults) ==
    oracle[f].result # "unmet" =>
        /\ oracle[f].task = processing_tasks[task]
        /\ oracle[f].result = result
        /\ oracle[f].encoding = encoding
        /\ oracle[f].elements = elements
        /\ oracle[f].faults = faults

\* the faults the environment can put into the three writes for file f
permitted_faults(f) ==
    IF oracle[f].result = "unmet" THEN [Sinks -> Faults] ELSE {oracle[f].faults}

\* ensure_directory_exists(output_dir_full): nothing when it exists
ensure_directory_exists(d) == outdirs \cup makedirs(normpath(d))

\* ensure_directory_exists raises (os.makedirs fails): the call is outside
\* the try, so the exception leaves the dispatcher
MkdirFails ==
    /\ pc = "walk"
    /\ LET f == Head(todo) IN
        /\ normpath(output_dir_full(f)) \notin outdirs
        /\ permits(f, "mkdir_error", <<>>, <<>>, NoFaults)
        /\ trail' = Append(trail,
              Visit(f, "mkdir_error", FALSE, <<>>, <<>>, {}, NoFaults, 0, 0, TRUE))
        /\ next_file(TRUE)
    /\ UNCHANGED <<input_dir_exists, tree, outdirs, outfiles, faillog, unsupported_log, run,
                   visits_left, before, sniffed>>

\* the three ways a call of log_failed_file inside the try can end: it
\* appends; it raises and the handler's own call appends the error; both raise
LogAttempt(f, cause, result, extracted, encoding) ==
    LET t == processing_tasks[task] IN
    \/ /\ faillog' = log_failed_file(faillog, t, input_path(f), cause)
       /\ trail' = Append(trail,
             Visit(f, result, extracted, encoding, <<>>, {}, NoFaults, 1, 0,
                   FALSE))
       /\ next_file(FALSE)
    \/ /\ faillog' = log_failed_file(faillog, t, input_path(f), "OSError")
       /\ trail' = Append(trail,
             Visit(f, result, extracted, encoding, <<>>, {}, NoFaults, 1, 1,
                   FALSE))
       /\ next_file(FALSE)
    \/ /\ UNCHANGED faillog
       /\ trail' = Append(trail,
             Visit(f, result, extracted, encoding, <<>>, {}, NoFaults, 0, 2,
                   TRUE))
       /\ next_file(TRUE)

\* detect_file_encoding returns None: the file is logged and skipped
UnknownEncoding ==
    /\ pc = "walk"
    /\ sniffs(processing_tasks[task])
    /\ \E g \in Guesses : detect_file_encoding(processing_tasks[task], g) = <<>>
    /\ permits(Head(todo), "unknown_encoding", <<>>, <<>>, NoFaults)
    /\ outdirs' = ensure_directory_exists(output_dir_full(Head(todo)))
    /\ LogAttempt(Head(todo), "Unknown encoding", "unknown_encoding", FALSE, <<>>)
    /\ UNCHANGED <<input_dir_exists, tree, outfiles, unsupported_log, run, visits_left, before,
                   sniffed>>

\* the extraction raises: the except handler of the loop body runs
ExtractionRaises ==
    /\ pc = "walk"
    /\ LET t == processing_tasks[task]
           f == Head(todo) IN
        \E enc \in Encodings(t) :
            /\ permits(f, "error", enc, <<>>, NoFaults)
            /\ outdirs' = ensure_directory_exists(output_dir_full(f))
            /\ IF on_error(t) = "nothing"
               THEN /\ UNCHANGED faillog
                    /\ trail' = Append(trail,
                          Visit(f, "error", TRUE, enc, <<>>, {}, NoFaults, 0, 0,
                                FALSE))
                    /\ next_file(FALSE)
               ELSE \/ /\ faillog' = log_failed_file(faillog, t, input_path(f),
                                                     "ExtractionError")
                       /\ trail' = Append(trail,
                             Visit(f, "error", TRUE, enc, <<>>, {}, NoFaults, 1, 0,
                                   FALSE))
                       /\ next_file(FALSE)
                    \/ /\ UNCHANGED faillog
                       /\ trail' = Append(trail,
                             Visit(f, "error", TRUE, enc, <<>>, {}, NoFaults, 0, 1,
                                   TRUE))
                       /\ next_file(TRUE)
    /\ UNCHANGED <<input_dir_exists, tree, outfiles, unsupported_log, run, visits_left, before,
                   sniffed>>

\* a loop body without the test for an empty result: the three sinks are
\* opened for writing and left with no content
EmptyResultTruncates ==
    /\ pc = "walk"
    /\ LET t == processing_tasks[task]
           f == Head(todo) IN
        \E enc \in Encodings(t) :
            /\ permits(f, "empty", enc, <<>>, NoFaults)
            /\ outdirs' = ensure_directory_exists(output_dir_full(f))
            /\ outfiles' = write_outputs(outfiles, t, f, <<>>, NoFaults)
            /\ UNCHANGED faillog
            /\ trail' = Append(trail,
                  Visit(f, "empty", TRUE, enc, <<>>, {}, NoFaults, 0, 0,
                        FALSE))
            /\ next_file(FALSE)
    /\ UNCHANGED <<input_dir_exists, tree, unsupported_log, run, visits_left, before,
                   sniffed>>

\* the extraction returns no element
EmptyResult ==
    /\ pc = "walk"
    /\ LET t == processing_tasks[task]
           f == Head(todo) IN
        \E enc \in Encodings(t) :
            /\ permits(f, "empty", enc, <<>>, NoFaults)
            /\ outdirs' = ensure_directory_exists(output_dir_full(f))
            /\ IF logs_empty_result(t)
               THEN LogAttempt(f, "No content extracted", "empty", TRUE, enc)
               ELSE /\ UNCHANGED faillog
                    /\ trail' = Append(trail,
                          Visit(f, "empty", TRUE, enc, <<>>, {}, NoFaults, 0, 0,
                                FALSE))
                    /\ next_file(FALSE)
    /\ UNCHANGED <<input_dir_exists, tree, outfiles, unsupported_log, run, visits_left, before,
                   sniffed>>

\* sink writes whose error reaches the except handler of the loop body: the
\* first write that fails ends them and the file is logged as failed
WriteOutputsErrorLogged ==
    /\ pc = "walk"
    /\ LET t == processing_tasks[task]
           f == Head(todo) IN
        \E enc \in Encodings(t), elements \in ExtractionResults \ {<<>>},
           faults \in permitted_faults(f) :
            LET written == {k \in Sinks : faults[k] = "ok"}
                failed == written # Sinks /\ on_error(t) # "nothing"
            IN /\ permits(f, "written", enc, elements, faults)
               /\ outdirs' = ensure_directory_exists(output_dir_full(f))
               /\ outfiles' = write_outputs_uncaught(outfiles, t, f, elements, faults)
               /\ faillog' = IF failed
                             THEN log_failed_file(faillog, t, input_path(f), "OSError")
                             ELSE faillog
               /\ trail' = Append(trail,
                     Visit(f, "written", TRUE, enc, elements, written, faults,
                           IF failed THEN 1 ELSE 0, 0, FALSE))
               /\ next_file(FALSE)
    /\ UNCHANGED <<input_dir_exists, tree, unsupported_log, run, visits_left, before,
                   sniffed>>

\* the extraction returns elements: write_output, write_json_output and
\* write_annotated_output each write their file or catch their own error
WriteOutputs ==
    /\ pc = "walk"
    /\ LET t == processing_tasks[task]
           f == Head(todo) IN
        \E enc \in Encodings(t), elements \in ExtractionResults \ {<<>>},
           faults \in permitted_faults(f) :
            LET written == {k \in Sinks : faults[k] = "ok"}
            IN /\ permits(f, "written", enc, elements, faults)
               /\ outdirs' = ensure_directory_exists(output_dir_full(f))
               /\ outfiles' = write_outputs(outfiles, t, f, elements, faults)
               /\ trail' = Append(trail,
                     Visit(f, "written", TRUE, enc, elements, written, faults,
                           0, 0, FALSE))
               /\ next_file(FALSE)
    /\ UNCHANGED <<input_dir_exists, tree, faillog, unsupported_log, run, visits_left, before,
                   sniffed>>

----------------------------------------------------------------------------
(* Between two runs a file may be removed from the input tree.             *)

ChangeTree ==
    /\ pc \in {"done", "crashed"}
    /\ run < MaxRuns
    /\ \E f \in tree : tree' = tree \ {f}
    /\ pc' = "idle"
    /\ UNCHANGED <<input_dir_exists, outdirs, outfiles, faillog,
                   unsupported_log, run, task, todo, invoked, caught, trail,
                   visits_left, before, oracle, sniffed>>

\* The input directory is removed, and its files with it, after the scan and
\* before main() calls the first dispatcher.
RemoveInputDir ==
    /\ pc = "dispatch"
    /\ input_dir_exists
    /\ input_dir_exists' = FALSE
    /\ tree' = {}
    /\ UNCHANGED <<outdirs, outfiles, faillog, unsupported_log, pc, run, task,
                   todo, invoked, caught, trail, visits_left, before, oracle,
                   sniffed>>

Next ==
    \/ log_unsupported_files
    \/ InvokeDispatcher
    \/ MkdirFails /\ UNCHANGED oracle
    \/ UnknownEncoding /\ UNCHANGED oracle
    \/ ExtractionRaises /\ UNCHANGED oracle
    \/ EmptyResult /\ UNCHANGED oracle
    \/ WriteOutputs /\ UNCHANGED oracle
    \/ ChangeTree
    \/ RemoveInputDir

Spec == Init /\ [][Next]_vars

----------------------------------------------------------------------------
(* A repeatable environment: whatever a file's visit meets the first time  *)
(* (the sniffer's answer, the extraction's result, the faults of the       *)
(* writes and of the failure log), it meets again in every later run.  The *)
(* input tree does not change, and the runs may meet every file each time. *)

\* what the environment did in loop iteration v
outcome(v) ==
    [task |-> v.task, result |-> v.result, encoding |-> v.encoding,
     elements |-> v.elements, faults |-> v.faults, lines |-> v.lines,
     log_errors |-> v.log_errors, escaped |-> v.escaped]

\* the iteration just made meets what the first visit of its file met
Repeatable ==
    LET v == trail'[Len(trail')] IN
    IF oracle[v.file].result # "unmet"
    THEN outcome(v) = oracle[v.file] /\ UNCHANGED oracle
    ELSE oracle' = [oracle EXCEPT ![v.file] = outcome(v)]

InitRepeatable ==
    /\ input_dir_exists = TRUE
    /\ tree \in Trees
    /\ outdirs = {LOCAL_FILE_OUTPUT_DIR}
    /\ outfiles = << >>
    /\ faillog = [n \in FailedLogs |-> <<>>]
    /\ unsupported_log = <<>>
    /\ pc = "idle"
    /\ run = 0
    /\ task = 1
    /\ todo = <<>>
    /\ invoked = <<>>
    /\ caught = {}
    /\ trail = <<>>
    /\ visits_left = MaxRuns * MaxFiles
    /\ before = [out |-> << >>, dirs |-> {LOCAL_FILE_OUTPUT_DIR},
                 log |-> [n \in FailedLogs |-> <<>>], ended |-> "idle"]
    /\ oracle = [f \in Files |-> Unmet]
    /\ sniffed = NotSniffing

NextRepeatable ==
    \/ log_unsupported_files
    \/ InvokeDispatcher
    \/ MkdirFails /\ Repeatable
    \/ UnknownEncoding /\ Repeatable
    \/ ExtractionRaises /\ Repeatable
    \/ EmptyResult /\ Repeatable
    \/ WriteOutputs /\ Repeatable

SpecRepeatable == InitRepeatable /\ [][NextRepeatable]_vars

----------------------------------------------------------------------------
(* Progress.  main() is one thread that runs to its end: whenever a step of *)
(* the loop over processing_tasks or of a dispatcher's loop can be taken, it *)
(* is taken.  No call has a timeout, so an extraction that never returns    *)
(* leaves main() inside it.  Starting main() again is up to the user.       *)

\* the extraction of Head(todo) is called and never returns
ExtractionHangs ==
    /\ pc = "walk"
    /\ outdirs' = ensure_directory_exists(output_dir_full(Head(todo)))
    /\ pc' = "hung"
    /\ UNCHANGED <<input_dir_exists, tree, outfiles, faillog, unsupported_log,
                   run, task, todo, invoked, caught, trail, visits_left, before,
                   oracle, sniffed>>

\* the steps main() takes by itself once it is past the scan
ProgramStep ==
    \/ InvokeDispatcher
    \/ MkdirFails /\ UNCHANGED oracle
    \/ UnknownEncoding /\ UNCHANGED oracle
    \/ ExtractionRaises /\ UNCHANGED oracle
    \/ EmptyResult /\ UNCHANGED oracle
    \/ WriteOutputs /\ UNCHANGED oracle
    \/ ExtractionHangs

NextLive ==
    \/ Next
    \/ ExtractionHangs

SpecLive == Init /\ [][NextLive]_vars /\ WF_vars(ProgramStep)

----------------------------------------------------------------------------
(* detect_file_encoding by itself: the three modules' functions are called *)
(* on one candidate of charset-normalizer, in any order.                   *)

InitSniff ==
    /\ input_dir_exists = TRUE
    /\ tree = {}
    /\ outdirs = {LOCAL_FILE_OUTPUT_DIR}
    /\ outfiles = << >>
    /\ faillog = [n \in FailedLogs |-> <<>>]
    /\ unsupported_log = <<>>
    /\ pc = "idle"
    /\ run = 0
    /\ task = 1
    /\ todo = <<>>
    /\ invoked = <<>>
    /\ caught = {}
    /\ trail = <<>>
    /\ visits_left = 0
    /\ before = [out |-> << >>, dirs |-> {LOCAL_FILE_OUTPUT_DIR},
                 log |-> [n \in FailedLogs |-> <<>>], ended |-> "idle"]
    /\ oracle = [f \in Files |-> Unmet]
    /\ \E g \in Candidates :
          sniffed = [guess |-> g, answer |-> [t \in Sniffers |-> NotCalled]]

\* one call of detect_file_encoding of dispatcher t's module
Sniff(t) ==
    /\ sniffed # NotSniffing
    /\ sniffed.answer[t] = NotCalled
    /\ sniffed' = [sniffed EXCEPT
                      !.answer[t] = detect_file_encoding(t, sniffed.guess)]
    /\ UNCHANGED <<input_dir_exists, tree, outdirs, outfiles, faillog, unsupported_log, pc, run,
                   task, todo, invoked, caught, trail, visits_left, before,
                   oracle>>

NextSniff ==
    \/ Sniff("process_csv_files")
    \/ Sniff("process_tsv_files")
    \/ Sniff("process_text_files")

SpecSniff == InitSniff /\ [][NextSniff]_vars

----------------------------------------------------------------------------
(* What the claims speak of.                                               *)

\* the loop iterations of this run, as a set
Visits == {trail[i] : i \in DOMAIN trail}

\* the lines about path in the failure logs, counted over all logs
FailureRecords(path) ==
    UNION {{<<n, i>> : i \in {j \in DOMAIN faillog[n] : faillog[n][j][1] = path}} :
              n \in FailedLogs}

\* the three artifacts of file f exist in the output tree
Written(f) ==
    \A k \in Sinks : normpath(artifact_path(f, k)) \in DOMAIN outfiles

\* some artifact of file f exists in the output tree
SomeArtifact(f) ==
    \E k \in Sinks : normpath(artifact_path(f, k)) \in DOMAIN outfiles

\* the lowercase extension of f is one of supported_extensions
SupportedExtension(f) == lower(splitext_ext(f.name)) \in supported_extensions

\* the first run has gone through the whole of processing_tasks
FirstRunDone == run = 1 /\ pc = "done"

\* C1: after one run, every non-hidden file with a supported extension whose
\* extraction result was not empty has its three artifacts and no failure
\* record, or exactly one failure record and not its three artifacts.
C1_WrittenOrOneFailureRecord ==
    FirstRunDone =>
        \A f \in tree :
            ( /\ ~hidden_file(f)
              /\ SupportedExtension(f)
              /\ ~(\E v \in Visits : v.file = f /\ v.result = "empty") )
            => \/ Written(f) /\ FailureRecords(input_path(f)) = {}
               \/ ~Written(f) /\ Cardinality(FailureRecords(input_path(f))) = 1

\* C2: whenever the extraction raised for a file, the dispatcher stayed in its
\* loop and the category's failure log holds a line with the file's path and
\* the stringified cause; at the end of the run every file the category
\* selects has been visited.
C2_ExtractionErrorLoggedAndLoopGoesOn ==
    \A v \in Visits :
        v.result = "error" =>
            /\ ~v.escaped
            /\ failed_log_path(v.task) \in FailedLogs
            /\ \E i \in DOMAIN faillog[failed_log_path(v.task)] :
                  faillog[failed_log_path(v.task)][i] = <<v.path, "ExtractionError">>
            /\ pc = "done" =>
                  \A f \in tree :
                      (\E i \in 1..Len(processing_tasks) :
                          processing_tasks[i] = v.task /\ f \in Selected[i])
                      => \E w \in Visits : w.file = f /\ w.task = v.task

\* C3: a file whose extraction returned no element gets no artifact and no
\* line in any failure log, and the loop goes on.
C3_EmptyResultIsNoFailure ==
    \A v \in Visits :
        v.result = "empty" =>
            /\ v.lines = 0
            /\ v.written = {}
            /\ ~v.escaped
            /\ run = 1 => FailureRecords(v.path) = {}

\* C4: a hidden file, or a file under a hidden directory, is never visited by
\* a dispatcher, has no artifact and no failure record, and is not in
\* unsupported_files.log.
C4_HiddenFilesNeverVisited ==
    /\ \A v \in Visits : ~hidden_file(v.file)
    /\ \A f \in Files :
          hidden_file(f) =>
              /\ ~SomeArtifact(f)
              /\ FailureRecords(input_path(f)) = {}
              /\ \A i \in DOMAIN unsupported_log : unsupported_log[i] # input_path(f)

\* C5: once a scan has returned, unsupported_files.log holds exactly the
\* non-hidden files of the current tree whose lowercase extension is not
\* supported, whatever earlier runs logged.
C5_UnsupportedLogIsCurrent ==
    pc \in {"dispatch", "walk", "done"} =>
        {unsupported_log[i] : i \in DOMAIN unsupported_log}
            = {input_path(f) : f \in {g \in tree : ~hidden_file(g) /\ ~SupportedExtension(g)}}

\* C6: a file whose extension is not in the supported set is never visited by
\* a dispatcher and has no artifact and no failure record.
C6_UnsupportedNeverDispatched ==
    \A f \in Files :
        ~SupportedExtension(f) =>
            /\ \A v \in Visits : v.file # f
            /\ ~SomeArtifact(f)
            /\ FailureRecords(input_path(f)) = {}

\* the extensions dispatcher t is for
category_extensions(t) ==
    CASE t = "process_csv_files" -> {X_csv}
      [] t = "process_tsv_files" -> {X_tsv}
      [] t = "process_xlsx_files" -> {X_xlsx}
      [] t = "process_xml_files" -> {X_xml}
      [] t = "process_ppt_and_pptx_files" -> {X_ppt, X_pptx}
      [] t = "process_text_files" -> {X_txt}
      [] t = "process_image_files" -> {X_png, X_jpg, X_jpeg, X_tiff, X_bmp, X_heic}
      [] t = "process_odt_files" -> {X_odt}
      [] t = "process_org_files" -> {X_org}
      [] OTHER -> missing_extensions(t)

\* C7: each dispatcher selects a file whose name ends in one of its
\* extensions in any letter case: when a run in which no dispatcher was left
\* by an exception is over, every such file has been visited by it.
C7_ExtensionsMatchInAnyCase ==
    (pc = "done" /\ caught = {}) =>
        \A f \in tree : \A i \in 1..Len(processing_tasks) :
            ( /\ processing_tasks[i] \notin missing_tasks
              /\ endswith_any(lower(f.name), category_extensions(processing_tasks[i])) )
            => \E v \in Visits : v.file = f /\ v.task = processing_tasks[i]

C9_NoErrorEndsTheRun ==
    pc \in {"done", "crashed"} => invoked = processing_tasks

\* C10: a failure to create the output directory of a file stays with that
\* file: when the run is over, every file the dispatcher selects has been
\* visited by it.
C10_MkdirFailureContained ==
    \A v \in Visits :
        (v.result = "mkdir_error" /\ pc = "done") =>
            \A f \in tree :
                (\E i \in 1..Len(processing_tasks) :
                    processing_tasks[i] = v.task /\ f \in Selected[i])
                => \E w \in Visits : w.file = f /\ w.task = v.task

\* the artifact of sink k of the file of iteration v
artifact(v, k) == normpath(artifact_path(v.file, k))

\* C11: after an extraction that returned elements, every sink whose own
\* write met no I/O error holds its whole content, whichever of the other
\* sinks failed and however they failed.
C11_SinkFailuresAreIndependent ==
    \A v \in Visits :
        v.result = "written" =>
            \A k \in Sinks :
                v.faults[k] = "ok" =>
                    /\ artifact(v, k) \in DOMAIN outfiles
                    /\ outfiles[artifact(v, k)] = sink_content(v.task, k, v.elements)

\* C11 happens: the first write (plain text) failed after truncating its
\* file, and the two sinks after it were written whole
C11_Witness ==
    \E v \in Visits :
        /\ v.result = "written"
        /\ v.faults = [k \in Sinks |-> IF k = "txt" THEN "write" ELSE "ok"]
        /\ outfiles[artifact(v, "txt")] = <<>>
        /\ outfiles[artifact(v, "json")] = sink_content(v.task, "json", v.elements)
        /\ outfiles[artifact(v, "annotated")]
              = sink_content(v.task, "annotated", v.elements)

\* C12: each sink of a processed file that was written holds one entry per
\* element of the extraction result, the i-th entry made from the i-th
\* element; the JSON is one object whose single key holds the array.
C12_SinksKeepElementOrder ==
    \A v \in Visits :
        v.result = "written" =>
            LET n == Len(v.elements) IN
            /\ v.faults["txt"] = "ok" =>
                  /\ Len(outfiles[artifact(v, "txt")]) = n
                  /\ \A i \in 1..n :
                        outfiles[artifact(v, "txt")][i][1]
                            = format_text(v.elements[i].text)
            /\ v.faults["json"] = "ok" =>
                  /\ DOMAIN outfiles[artifact(v, "json")] = {"elements"}
                  /\ Len(outfiles[artifact(v, "json")].elements) = n
                  /\ \A i \in 1..n :
                        /\ outfiles[artifact(v, "json")].elements[i].type
                              = v.elements[i].kind
                        /\ outfiles[artifact(v, "json")].elements[i].text
                              = v.elements[i].text
            /\ v.faults["annotated"] = "ok" =>
                  /\ Len(outfiles[artifact(v, "annotated")]) = n
                  /\ \A i \in 1..n :
                        outfiles[artifact(v, "annotated")][i][2] = v.elements[i].kind

\* C12 happens: a file with two elements of different kinds, one of them
\* without text, has its three sinks written
C12_Witness ==
    \E v \in Visits :
        /\ v.result = "written"
        /\ v.faults = NoFaults
        /\ Len(v.elements) = 2
        /\ v.elements[1].kind # v.elements[2].kind
        /\ v.elements[2].text = <<>>
        /\ \A k \in Sinks : artifact(v, k) \in DOMAIN outfiles

\* C13: in a repeatable environment and with the input tree unchanged, when a
\* run that follows a finished run is over, the output tree is what it was
\* when the run began: the same artifacts with the same contents, and the
\* same directories.
C13_RerunLeavesOutputUnchanged ==
    (run >= 2 /\ pc = "done" /\ before.ended = "done") =>
        /\ outfiles = before.out
        /\ outdirs = before.dirs

\* C13 happens: the second run over a tree of two files is over, and it has
\* written a file's sinks again, one of whose writes fails each time
C13_Witness ==
    /\ run = 2
    /\ pc = "done"
    /\ before.ended = "done"
    /\ Cardinality(tree) = 2
    /\ \E v \in Visits :
          /\ v.result = "written"
          /\ \E k \in Sinks : v.faults[k] = "ok"
          /\ \E k \in Sinks : v.faults[k] = "write"
          /\ \A k \in Sinks :
                v.faults[k] = "ok" => artifact(v, k) \in DOMAIN before.out

\* the sniffers that have answered in this state
Answered == {t \in Sniffers : sniffed.answer[t] # NotCalled}

NewLines(n) == SubSeq(faillog[n], Len(before.log[n]) + 1, Len(faillog[n]))

\* the lines about path that this run has appended to failure log n
NewRecords(n, path) == SelectSeq(NewLines(n), LAMBDA line : line[1] = path)

\* this run has written no artifact of file f
NoArtifactWritten(f) ==
    \A k \in Sinks :
        LET p == normpath(artifact_path(f, k)) IN
        /\ p \in DOMAIN outfiles <=> p \in DOMAIN before.out
        /\ p \in DOMAIN outfiles => outfiles[p] = before.out[p]

\* the dispatcher whose loop made iteration v has visited every file it selects
LoopWentOn(v) ==
    \A f \in tree :
        (\E i \in 1..Len(processing_tasks) :
            processing_tasks[i] = v.task /\ f \in Selected[i])
        => \E w \in Visits : w.file = f /\ w.task = v.task

\* the three artifacts of the file of iteration v are whole, under the output
\* root followed by the file's directory
MirroredArtifacts(v) ==
    \A k \in Sinks :
        LET p == LOCAL_FILE_OUTPUT_DIR \o v.file.dir
                    \o <<v.file.name \o sink_suffix(k)>> IN
        /\ p \in DOMAIN outfiles
        /\ outfiles[p] = sink_content(v.task, k, v.elements)

\* what C15 says of the iteration v in which the sniffer returned None
SkippedAsUnknownEncoding(v) ==
    /\ ~v.extracted
    /\ ~v.escaped
    /\ NewRecords(failed_log_path(v.task), v.path) = << <<v.path, "Unknown encoding">> >>
    /\ NoArtifactWritten(v.file)
    /\ pc = "done" =>
          /\ LoopWentOn(v)
          /\ \A w \in Visits :
                ( /\ w.task = v.task
                  /\ w.file.dir = v.file.dir
                  /\ w.result = "written"
                  /\ w.faults = NoFaults )
                => MirroredArtifacts(w)

\* C15 as stated: whenever a sniffer returned None for a file, the file was
\* not extracted, exactly one record with the unknown-encoding reason was
\* appended, no artifact was written, nothing left the loop, and the siblings
\* were processed.
C15_UnknownEncodingIsSkipped ==
    \A v \in Visits : v.result = "unknown_encoding" => SkippedAsUnknownEncoding(v)

\* what is left of C15 when the append of the record does not raise
UnknownEncodingIsSkippedIfLogged ==
    \A v \in Visits :
        (v.result = "unknown_encoding" /\ v.log_errors = 0)
        => SkippedAsUnknownEncoding(v)

\* a run is over in which the csv dispatcher skipped s/b.csv for its encoding
\* and wrote the three artifacts of s/c.csv, read as utf_8
SiblingOfUnknownEncodingWritten ==
    /\ pc = "done"
    /\ \E v, w \in Visits :
          /\ v.task = "process_csv_files"
          /\ v.result = "unknown_encoding"
          /\ v.log_errors = 0
          /\ w.task = v.task
          /\ w.file # v.file
          /\ w.file.dir = v.file.dir
          /\ w.result = "written"
          /\ w.encoding = ENC_utf_8
          /\ w.faults = NoFaults
          /\ MirroredArtifacts(w)

mirror_dir(f) == LOCAL_FILE_OUTPUT_DIR \o f.dir

\* C17: a loop iteration that reaches the sink writes has the file's mirror
\* directory in place and puts the three artifacts into it; and an iteration
\* on a file whose mirror directory is already there creates no directory and
\* meets no error of directory creation.
C17_ArtifactsInMirrorDirectory ==
    [][Len(trail') = Len(trail) + 1 =>
        LET v == trail'[Len(trail')] IN
        /\ v.result = "written" =>
              /\ mirror_dir(v.file) \in outdirs'
              /\ \A k \in Sinks :
                    /\ artifact(v, k)
                          = mirror_dir(v.file) \o <<v.file.name \o sink_suffix(k)>>
                    /\ v.faults[k] = "ok" => artifact(v, k) \in DOMAIN outfiles'
        /\ mirror_dir(v.file) \in outdirs =>
              /\ outdirs' = outdirs
              /\ v.result # "mkdir_error"]_vars

\* C17 happens: two files of the sub-directory s have been written; the
\* directory was made for the first and was there for the second
C17_Witness ==
    /\ Len(trail) = 2
    /\ \A i \in 1..2 :
          /\ trail[i].result = "written"
          /\ trail[i].file.dir = <<<<"s">>>>
          /\ trail[i].faults = NoFaults
    /\ LOCAL_FILE_OUTPUT_DIR \o <<<<"s">>>> \in outdirs
    /\ Cardinality({p \in DOMAIN outfiles : Len(p) = 3}) = 6

\* every failure log begins with what it held when this run began
FailureLogsOnlyGrow ==
    \A n \in FailedLogs :
        /\ Len(before.log[n]) <= Len(faillog[n])
        /\ SubSeq(faillog[n], 1, Len(before.log[n])) = before.log[n]

\* the records about path that this run has appended, over all failure logs
RECURSIVE CountNewRecords(_, _)
CountNewRecords(logs, path) ==
    IF logs = {} THEN 0
    ELSE LET n == CHOOSE m \in logs : TRUE
         IN Len(NewRecords(n, path)) + CountNewRecords(logs \ {n}, path)

\* C18: a failure log only grows, what it held when a run began staying in
\* front; and a run adds one record for each file that failed in it (its
\* encoding unknown or its extraction raising) and none for any other file, so
\* that a file that fails in n runs has n records.
C18_FailureLogsAccumulate ==
    /\ FailureLogsOnlyGrow
    /\ pc = "done" =>
          \A f \in tree :
              CountNewRecords(FailedLogs, input_path(f))
                  = Cardinality({v \in Visits :
                        v.file = f /\ v.result \in {"error", "unknown_encoding"}})

\* C19: while the input directory is missing no dispatcher walks; and when the
\* loop of main() is over, every dispatcher has been called, none was left by
\* an exception, no file was visited, and the output directories, the
\* artifacts and the failure logs are what they were when the run began.
C19_MissingInputRootSkipsEveryCategory ==
    ~input_dir_exists =>
        /\ pc \in {"dispatch", "done"}
        /\ pc = "done" =>
              /\ invoked = processing_tasks
              /\ caught = {}
              /\ trail = <<>>
              /\ outdirs = before.dirs
              /\ outfiles = before.out
              /\ faillog = before.log

\* C19 happens: a first run has written artifacts; in the second the input
\* directory went away after the scan, and the loop of main() is over
C19_Witness ==
    /\ ~input_dir_exists
    /\ run = 2
    /\ pc = "done"
    /\ invoked = processing_tasks
    /\ before.out # << >>
    /\ outfiles = before.out

\* C20: in every category the annotated-text sink holds, for each element in
\* turn, the line "[<kind>] <text>", <text> being the element's text, and the
\* empty string when the element has none.
C20_AnnotatedLineIsKindAndText ==
    \A v \in Visits :
        (v.result = "written" /\ v.faults["annotated"] = "ok") =>
            /\ Len(outfiles[artifact(v, "annotated")]) = Len(v.elements)
            /\ \A i \in 1..Len(v.elements) :
                  outfiles[artifact(v, "annotated")][i]
                      = <<"[", v.elements[i].kind, "] ",
                          IF v.elements[i].text = <<>> THEN ""
                          ELSE v.elements[i].text[1],
                          "\n">>

\* what is left of C20 outside the text category
AnnotatedLineIsKindAndTextButForText ==
    \A v \in Visits :
        ( /\ v.result = "written"
          /\ v.faults["annotated"] = "ok"
          /\ v.task # "process_text_files" ) =>
            \A i \in 1..Len(v.elements) :
                outfiles[artifact(v, "annotated")][i]
                    = <<"[", v.elements[i].kind, "] ",
                        IF v.elements[i].text = <<>> THEN ""
                        ELSE v.elements[i].text[1],
                        "\n">>

\* what the loop of process_ppt_and_pptx_files does after the extraction of
\* iteration v, whichever capability was called
RestOfPptLoop(v) ==
    /\ v.result = "empty" => v.lines = 0 /\ v.written = {} /\ ~v.escaped
    /\ v.result = "written" =>
          /\ v.lines = 0 /\ ~v.escaped
          /\ \A k \in Sinks :
                v.faults[k] = "ok" =>
                    /\ artifact(v, k) \in DOMAIN outfiles
                    /\ outfiles[artifact(v, k)] = sink_content(v.task, k, v.elements)
    /\ v.result = "error" =>
          /\ v.written = {}
          /\ v.lines + v.log_errors = 1
          /\ v.lines = 1 =>
                \E i \in DOMAIN faillog["failed_ppt_files.log"] :
                    faillog["failed_ppt_files.log"][i] = <<v.path, "ExtractionError">>

\* C21: in the ppt/pptx category a file whose extension is .pptx in any letter
\* case is extracted by partition_pptx and one whose extension is .ppt by
\* partition_ppt, never the other way round; and what follows the extraction
\* (an empty result, the three writes, the failure record) is the same for
\* both.
C21_CapabilityByExactExtension ==
    \A v \in Visits :
        (v.task = "process_ppt_and_pptx_files" /\ v.extracted) =>
            /\ lower(splitext_ext(v.file.name)) = X_pptx
                  <=> v.capability = "partition_pptx"
            /\ lower(splitext_ext(v.file.name)) = X_ppt
                  <=> v.capability = "partition_ppt"
            /\ RestOfPptLoop(v)

\* C21 happens: in one run p.ppt went to partition_ppt and Q.PPTX to
\* partition_pptx, one of them written and the other one not
C21_Witness ==
    \E v, w \in Visits :
        /\ v.file.name = <<"p",".","p","p","t">>
        /\ v.capability = "partition_ppt"
        /\ w.file.name = <<"Q",".","P","P","T","X">>
        /\ w.capability = "partition_pptx"
        /\ \/ v.result = "written" /\ w.result \in {"empty", "error"}
           \/ w.result = "written" /\ v.result \in {"empty", "error"}

\* the step makes a loop iteration whose extraction returned elements and in
\* which at least one of the three writes failed
SinkWriteFailed ==
    /\ Len(trail') = Len(trail) + 1
    /\ trail'[Len(trail')].result = "written"
    /\ \E k \in Sinks : trail'[Len(trail')].faults[k] # "ok"

\* C22: an iteration in which one, two or three sink writes failed appends
\* nothing to any failure log, lets no exception leave the dispatcher, and is
\* followed by the next matching file, or by the return of the dispatcher when
\* there is none.
C22_SinkFailureIsNoFailure ==
    [][SinkWriteFailed =>
        /\ faillog' = faillog
        /\ trail'[Len(trail')].lines = 0
        /\ ~trail'[Len(trail')].escaped
        /\ caught' = caught
        /\ IF Tail(todo) # <<>>
           THEN pc' = "walk" /\ task' = task /\ todo' = Tail(todo)
           ELSE pc' = "done" \/ (pc' = "walk" /\ task' > task)]_vars

\* C22 happens: the three writes of s/b.csv failed, no failure log has a
\* line, and the csv dispatcher has gone on to s/c.csv and written it
C22_Witness ==
    /\ Len(trail) = 2
    /\ trail[1].task = "process_csv_files"
    /\ trail[1].result = "written"
    /\ \A k \in Sinks : trail[1].faults[k] # "ok"
    /\ trail[2].task = "process_csv_files"
    /\ trail[2].result = "written"
    /\ trail[2].faults = NoFaults
    /\ caught = {}
    /\ \A n \in FailedLogs : faillog[n] = <<>>

\* file names with more than one extension-like part, or with one extension
\* that ends or begins as another does
ProbeNames ==
    { <<"a",".","p","p","t",".","t","x","t">>,
      <<"a",".","c","s","v",".","t","s","v">>,
      <<"a",".","x","m","l",".","h","t","m","l">>,
      <<"a",".","d","o","c",".","d","o","c","x">>,
      <<"a",".","P","P","T","X">>,
      <<"a",".","j","p","g",".","j","p","e","g">>,
      <<"a",".","o","d","t",".","O","R","G">>,
      <<"c","s","v">>,
      <<".","m","d">> }

\* the indices of the dispatchers that select each of these names
ProbeSelectors ==
    [n \in ProbeNames |->
        {i \in 1..Len(processing_tasks) : selects(processing_tasks[i], F(<<>>, n))}]

\* C23: no file name is selected by two dispatchers; in one run no file is
\* visited twice, by the same dispatcher or by another (so that its
\* extraction is called at most once), and a file that has been visited is
\* not among those the running dispatcher has yet to visit.
C23_EachFileVisitedAtMostOnce ==
    /\ \A n \in ProbeNames : Cardinality(ProbeSelectors[n]) <= 1
    /\ \A f \in Files :
          Cardinality({i \in 1..Len(processing_tasks) : f \in Selected[i]}) <= 1
    /\ \A i, j \in DOMAIN trail : trail[i].file = trail[j].file => i = j
    /\ \A f \in Files :
          Cardinality({i \in DOMAIN trail : trail[i].file = f /\ trail[i].extracted})
              <= 1
    /\ pc = "walk" =>
          \A k \in DOMAIN todo : \A v \in Visits : v.file # todo[k]

\* C23 happens: a run over two files is over in which the extraction of one
\* raised and the other was written, each visited once
C23_Witness ==
    /\ pc = "done"
    /\ Cardinality(tree) = 2
    /\ Len(trail) = 2
    /\ trail[1].result = "error"
    /\ trail[1].extracted
    /\ trail[2].result = "written"
    /\ trail[1].file # trail[2].file

\* run r of main() is under way, or has been ended by an error
InRun(r) == run = r /\ pc \in {"dispatch", "walk", "crashed"}

\* run r is past the scan and under way
PastScan(r) == run = r /\ pc \in {"dispatch", "walk"}

\* run r has reached the end of main(), every dispatcher called
RunOver(r) == run = r /\ pc = "done" /\ invoked = processing_tasks

\* run r is inside an extraction that does not return
Blocked(r) == run = r /\ pc = "hung"

\* once main() is inside an extraction that does not return it stays there:
\* no further file is visited and no further dispatcher is called
HangBlocksForever ==
    [][pc = "hung" =>
        /\ pc' = "hung"
        /\ invoked' = invoked
        /\ trail' = trail
        /\ outfiles' = outfiles
        /\ faillog' = faillog]_vars

\* C24: every run of main() comes to its end having called every dispatcher,
\* unless an extraction does not return; and from then on main() stays in
\* that extraction, so that the rest of its category and the categories after
\* it are never attempted.
C24_RunEndsUnlessExtractionHangs ==
    /\ \A r \in 1..MaxRuns : InRun(r) ~> (RunOver(r) \/ Blocked(r))
    /\ HangBlocksForever

\* what is left of C24 for a run whose scan has returned
RunPastScanEndsUnlessExtractionHangs ==
    /\ \A r \in 1..MaxRuns : PastScan(r) ~> (RunOver(r) \/ Blocked(r))
    /\ HangBlocksForever

\* a run is blocked in the first of two csv files, with dispatchers uncalled
BlockedInFirstFile ==
    /\ pc = "hung"
    /\ Len(todo) = 2
    /\ Len(invoked) < Len(processing_tasks)

\* files whose names end as an artifact name does, or begin as another file's
ProbeFiles ==
    { F(<<>>, <<"a",".","t","x","t">>),
      F(<<>>, <<"a",".","t","x","t",".","t","x","t">>),
      F(<<>>, <<"a",".","t","x","t","_","a","n","n","o","t","a","t","e","d",".","t","x","t">>),
      F(<<>>, <<"a",".","c","s","v">>),
      F(<<>>, <<"a",".","c","s","v",".","t","x","t">>),
      F(<<>>, <<"a",".","t","s","v">>),
      F(<< <<"a">> >>, <<"a",".","t","x","t">>) }

\* the artifact paths of any two different files are different
ArtifactPathsDistinct ==
    \A f, g \in Files \cup ProbeFiles :
        f # g =>
            \A k, l \in Sinks :
                normpath(artifact_path(f, k)) # normpath(artifact_path(g, l))

\* C25: the artifact paths of two different files are different, whatever
\* their categories (a fact about names, looked at before the first run): in
\* one run no two visited files have an artifact path in
\* common, and every artifact written in the run still holds what its own
\* file's iteration wrote.
C25_NoTwoFilesShareAnArtifact ==
    /\ (run = 0 /\ tree = {}) => ArtifactPathsDistinct
    /\ \A v, w \in Visits :
          v.file # w.file =>
              \A k, l \in Sinks : artifact(v, k) # artifact(w, l)
    /\ \A v \in Visits : \A k \in v.written :
          /\ artifact(v, k) \in DOMAIN outfiles
          /\ outfiles[artifact(v, k)] = sink_content(v.task, k, v.elements)
          /\ artifact(v, k)[Len(artifact(v, k))] = v.file.name \o sink_suffix(k)

\* C25 happens: r.tsv and r.txt, of one directory and of two categories, have
\* been written in one run, and the output tree holds six artifacts
C25_Witness ==
    /\ pc = "done"
    /\ run = 1
    /\ Len(trail) = 2
    /\ trail[1].file.name = <<"r",".","t","s","v">>
    /\ trail[2].file.name = <<"r",".","t","x","t">>
    /\ trail[1].faults = NoFaults
    /\ trail[2].faults = NoFaults
    /\ trail[1].result = "written"
    /\ trail[2].result = "written"
    /\ Cardinality(DOMAIN outfiles) = 6

\* C26: in every state of a run, the artifacts of a file that the run has not
\* written (its iteration ended by an error, an empty result, an unknown
\* encoding, or it was not visited) are what they were when the run began:
\* none was created, deleted, truncated or rewritten.
C26_StaleArtifactsAreKept ==
    \A f \in Files :
        (\A v \in Visits : v.file = f => v.result # "written")
        => NoArtifactWritten(f)

\* C26 happens: the first run wrote the three artifacts of a file; in the
\* second its extraction raised and a failure record was appended, and the
\* three artifacts are still there with what the first run wrote
C26_Witness ==
    /\ run = 2
    /\ pc = "done"
    /\ \E v \in Visits :
          /\ v.result = "error"
          /\ v.lines = 1
          /\ FailureRecords(v.path) # {}
          /\ \A k \in Sinks :
                /\ artifact(v, k) \in DOMAIN before.out
                /\ before.out[artifact(v, k)] # <<>>
                /\ outfiles[artifact(v, k)] = before.out[artifact(v, k)]

\* the index of dispatcher t in processing_tasks
task_index(t) == CHOOSE i \in 1..Len(processing_tasks) : processing_tasks[i] = t

\* iteration v ended with log_failed_file raising out of the except handler
LogFailureEscaped(v) == v.escaped /\ v.log_errors >= 1

\* C27: when log_failed_file raised out of the except handler in an
\* iteration, that iteration is the dispatcher's last of the run: the matching
\* files after it in the walk are not visited; main() has caught the
\* exception and is not ended by it, it is at a later dispatcher or through
\* with all of them.
C27_LogFailureLeavesTheDispatcher ==
    pc \in {"walk", "done", "crashed", "hung"} =>
        \A i \in DOMAIN trail :
            LogFailureEscaped(trail[i]) =>
                LET t == trail[i].task
                    files == matching(task_index(t), tree)
                    seen == SelectSeq(trail, LAMBDA w : w.task = t)
                IN /\ t \in caught
                   /\ \A j \in DOMAIN trail : j > i => trail[j].task # t
                   /\ seen[Len(seen)] = trail[i]
                   /\ Len(seen) <= Len(files)
                   /\ \A k \in 1..Len(seen) : seen[k].file = files[k]
                   /\ \A k \in (Len(seen) + 1)..Len(files) :
                         \A w \in Visits : w.file # files[k]
                   /\ pc # "crashed"
                   /\ pc = "walk" => task > task_index(t)
                   /\ pc = "done" => invoked = processing_tasks

\* C27 happens: the sniffer returned None for s/b.csv and both calls of
\* log_failed_file raised; s/c.csv was not visited, main() caught the
\* exception of the csv dispatcher and called all the dispatchers after it
C27_Witness ==
    /\ pc = "done"
    /\ invoked = processing_tasks
    /\ caught = {"process_csv_files"}
    /\ Len(trail) = 1
    /\ trail[1].file = F(<< <<"s">> >>, <<"b",".","c","s","v">>)
    /\ trail[1].result = "unknown_encoding"
    /\ trail[1].log_errors = 2
    /\ trail[1].escaped
    /\ F(<< <<"s">> >>, <<"c",".","c","s","v">>) \in tree
    /\ \A n \in FailedLogs : faillog[n] = <<>>

\* a run in which an exception of log_failed_file left the csv dispatcher and
\* main() went on to the text dispatcher, which wrote its file
NextCategoryAfterLogFailure ==
    /\ pc = "done"
    /\ Len(trail) = 2
    /\ trail[1].task = "process_csv_files"
    /\ LogFailureEscaped(trail[1])
    /\ trail[1].result = "error"
    /\ trail[2].task = "process_text_files"
    /\ trail[2].result = "written"

====
